---- MODULE Spec2Model ----
(***************************************************************************)
(* Status page event pipeline: provider adapter, change detector,          *)
(* append-only JSONL event log with size-triggered 24h retention, webhook  *)
(* receiver and poller.                                                    *)
(*                                                                         *)
(* Conventions.                                                            *)
(*   - a Python dict is a TLA+ function; "k in d" is  k \in DOMAIN d.      *)
(*   - a Python list is a sequence.                                        *)
(*   - None is the record [none |-> TRUE], which no dict or datetime is.  *)
(*   - a datetime is [wall |-> hours, tz |-> "utc" | "naive"]; an ISO-8601 *)
(*     string is the pair <<hours, suffix>> with suffix "Z" (UTC), ""      *)
(*     (no offset) or "?" (text that datetime.fromisoformat rejects).      *)
(*   - a line of the log file is its text as a sequence of JSON tokens:    *)
(*     <<"{">>, <<"kv", key, value>>, ..., <<"}">>; the empty sequence is  *)
(*     a blank line; a text that lacks the closing token is a truncated    *)
(*     write, which json.loads rejects.                                    *)
(*   - a request body is [json |-> kind, data |-> the object]; kind is     *)
(*     "not-utf8", "invalid" (no JSON), "array" or "object".  Where the    *)
(*     code expects an object, JSON null is None and a JSON string is the  *)
(*     record [scalar |-> text].                                           *)
(*   - the variables that describe "the last step" (lastOp, hookBody,      *)
(*     pollStatus, ...) hold the outcome of the call that ended in the     *)
(*     step just taken and are idle after any other step.                  *)
(***************************************************************************)
EXTENDS Integers, Sequences, FiniteSets, TLC

VARIABLES
    now,            \* the wall clock, in hours (datetime.now(timezone.utc))
    logExists,      \* os.path.exists(LOG_PATH)
    logLines,       \* the lines of the file at LOG_PATH, in file order
    lastOp,         \* the event_log call that ended in the last step: "none", "append", "read"
    lastWritten,    \* that append_events: the file's lines after the write of lines 55-57
    lastTrim,       \* that append_events: "none", "window" (lines 62-73), "fallback" (76-80)
    lastLimit,      \* that read_last_events: its argument
    result,         \* that read_last_events: its return value
    appended,       \* every event append_events has written since start, in order
    cleanStart,     \* the store was empty or absent when the process started
    trimmed,        \* some append_events since start has run the trim of lines 60-83
    trimPc,         \* append_events in steps: "idle", "kept" (at line 81), "writing" (82-83),
                    \*   "done" (the trim begun last returned), "stopped" (it did not)
    trimFrom,       \* append_events in steps: the file's lines when the trim begun last began
    trimKept,       \* append_events in steps: `kept` of the trim begun last
    trimPending,    \* append_events in steps: lines of `kept` not yet in the file
    hookSeen,       \* webhook_server.detector._seen
    inflight,       \* webhook requests suspended in `await request.body()`
    hookNew,        \* webhook: `new` of the request handled in the last step
    hookCount,      \* webhook requests accepted so far
    hookRaced,      \* some request was handled while another with the same body was suspended
    hookBody,       \* webhook: `body` of the request handled in the last step, else None
    hookProvider,   \* webhook: `provider` of that request
    hookPrevSeen,   \* webhook: detector._seen when that request was resumed
    hookRaised,     \* webhook: that request ended with an exception out of parse_webhook
    pollSeen,       \* main.main: detector._seen
    pollNew,        \* main.run_once: `new` of the run that ended in the last step
    pollCount,      \* run_once calls so far
    pollCache,      \* main: adapter._cache, url -> <<summary, last_modified>>
    pollGood,       \* url -> the summary of the latest fetch of url that was parsed
    pollCall,       \* run_once of the last step: [url, resp] of its fetch, else None
    pollPrevCache,  \* run_once of the last step: adapter._cache when it began
    pollStatus,     \* run_once of the last step: "none", "ok", "transport", "parse", "normalize"
    pollSummary,    \* run_once of the last step: what fetch_summary returned
    pollEvents,     \* run_once of the last step: what fetch_events returned
    pollEmitted,    \* updates <<page id, event_id>> that run_once printed as new
    hookEmitted,    \* updates <<page id, event_id>> that webhook printed as new
    demoSeen,       \* detector.py demo: detector._seen
    demoBase,       \* detector.py demo: base
    demoPc,         \* detector.py demo: "start", "first", "second"
    seen_before,    \* detector.py demo: detector._seen when the first call began
    first_new,      \* detector.py demo: first_new
    second_new      \* detector.py demo: second_new

logVars == <<now, logExists, logLines, lastOp, lastWritten, lastTrim, lastLimit,
             result, appended, cleanStart, trimmed, trimPc, trimFrom, trimKept, trimPending>>
hookVars == <<hookSeen, inflight, hookNew, hookCount, hookRaced, hookEmitted,
              hookBody, hookProvider, hookPrevSeen, hookRaised>>
pollVars == <<pollSeen, pollNew, pollCount, pollEmitted, pollCache, pollGood, pollCall,
              pollPrevCache, pollStatus, pollSummary, pollEvents>>
demoVars == <<demoSeen, demoBase, demoPc, seen_before, first_new, second_new>>
vars == <<logVars, hookVars, pollVars, demoVars>>

None == [none |-> TRUE]

\* _detect_webhook_provider returning None
NoProvider == "<None>"

\* AtlassianAdapter.__init__: self._cache = {}
EmptyCache == [url \in {} |-> <<>>]

(***************************************************************************)
(* Bounds of the model.                                                    *)
(***************************************************************************)
MaxBatchLen == 2        \* longest batch handed to filter_new in the demo
Now0 == 100             \* the clock when the processes start
MaxTicks == 1           \* hours the clock advances
MaxInitLen == 2         \* lines of a store left by an earlier run (bulk stores aside)
MaxAppendLen == 2       \* longest batch handed to append_events
MaxLimit == 2           \* largest `limit` queried, the default aside
BulkLen == 101          \* records of the bulk store left by an earlier run
MaxRequests == 2        \* webhook requests accepted
MaxPolls == 2           \* run_once calls
LocalOffsetHours == 2   \* the server's local time minus UTC

RECURSIVE SeqsUpTo(_, _)
SeqsUpTo(S, n) ==
    IF n = 0 THEN {<<>>}
    ELSE LET shorter == SeqsUpTo(S, n - 1)
         IN shorter \cup {Append(s, x) : s \in {t \in shorter : Len(t) = n - 1}, x \in S}

(***************************************************************************)
(* models.py: UnifiedEvent.                                                *)
(***************************************************************************)
UnifiedEvent(source_id, product_name, status, message, timestamp, event_id) ==
    [source_id |-> source_id, product_name |-> product_name, status |-> status,
     message |-> message, timestamp |-> timestamp, event_id |-> event_id]

Utc(h) == [wall |-> h, tz |-> "utc"]
Naive(h) == [wall |-> h, tz |-> "naive"]

(***************************************************************************)
(* pipeline/detector.py: ChangeDetector.                                   *)
(***************************************************************************)
EmptySeen == [k \in {} |-> {}]

\* a lookup that starts the source's set afresh
SetDefaultFresh(seen, source_id) == (source_id :> {}) @@ seen

\* self._seen.setdefault(source_id, set()): the dict afterwards
SetDefault(seen, source_id) ==
    IF source_id \in DOMAIN seen THEN seen ELSE seen @@ (source_id :> {})

\* a detector that forgets to record what it returns
MarkSeenForgets(seen, e) == seen

\* a detector that records the id under every source it knows
MarkSeenEverySource(seen, e) == [s \in DOMAIN seen |-> seen[s] \cup {e.event_id}]

\* source_seen.add(e.event_id)
MarkSeen(seen, e) ==
    [seen EXCEPT ![e.source_id] = @ \cup {e.event_id}]

RECURSIVE FilterLoop(_, _, _)
FilterLoop(seen, events, new) ==
    IF events = <<>> THEN [seen |-> seen, new |-> new]
    ELSE LET e == Head(events)
             s1 == SetDefault(seen, e.source_id)
         IN IF e.event_id \notin s1[e.source_id]
            THEN FilterLoop(MarkSeen(s1, e), Tail(events), Append(new, e))
            ELSE FilterLoop(s1, Tail(events), new)

\* filter_new(events) on a detector whose _seen is `seen`:
\* [seen |-> _seen afterwards, new |-> the returned list]
filter_new(seen, events) == FilterLoop(seen, events, <<>>)

Key(e) == <<e.source_id, e.event_id>>

(***************************************************************************)
(* pipeline/detector.py, the demo under __main__: one detector, one batch, *)
(* two calls of filter_new in a row.  The batch is drawn from DemoBatches  *)
(* and the detector may have served one earlier call.                      *)
(***************************************************************************)
DemoSources == {"OpenAI", "Anthropic"}
DemoEventIds == {"evt-1", "evt-2"}
DemoEvents ==
    {UnifiedEvent(s, "API", "investigating", "We are looking into it.", Naive(Now0), i) :
        s \in DemoSources, i \in DemoEventIds}
DemoBatches == SeqsUpTo(DemoEvents, MaxBatchLen)

\* an earlier scrape on the same detector
DemoEarlier(batch) ==
    /\ demoPc = "start"
    /\ demoSeen = EmptySeen
    /\ batch # <<>>
    /\ demoSeen' = filter_new(demoSeen, batch).seen
    /\ UNCHANGED <<demoBase, demoPc, seen_before, first_new, second_new>>

\* first_new = detector.filter_new(base)
DemoFirst ==
    /\ demoPc = "start"
    /\ LET r == filter_new(demoSeen, demoBase)
       IN /\ first_new' = r.new
          /\ demoSeen' = r.seen
    /\ seen_before' = demoSeen
    /\ demoPc' = "first"
    /\ UNCHANGED <<demoBase, second_new>>

\* second_new = detector.filter_new(base)
DemoSecond ==
    /\ demoPc = "first"
    /\ LET r == filter_new(demoSeen, demoBase)
       IN /\ second_new' = r.new
          /\ demoSeen' = r.seen
    /\ demoPc' = "second"
    /\ UNCHANGED <<demoBase, seen_before, first_new>>

(***************************************************************************)
(* event_log.py: the JSONL store.                                          *)
(***************************************************************************)
MAX_FILE_BYTES == 102400
KEEP_LAST_N_WHEN_EMPTY == 100
WindowHours == 24

\* Bounds on the sizes of the texts written.
LongMsgBytes == 60000   \* bytes of LongMessage, a long incident report
ShortMsgBytes == 40     \* bytes of any other message
TokenBytes == 30        \* bytes of any other key/value pair or brace

LongMessage == "(long incident report)"
MessageBytes(m) == IF m = LongMessage THEN LongMsgBytes ELSE ShortMsgBytes

Open == <<"{">>
Close == <<"}">>
Kv(k, v) == <<"kv", k, v>>
IsKv(tok) == Len(tok) = 3 /\ tok[1] = "kv"

FieldOrder == <<"source_id", "product_name", "status", "message", "timestamp", "event_id">>

\* datetime -> ISO-8601 string, as pydantic writes it in mode="json"
IsoFormat(ts) == <<ts.wall, IF ts.tz = "utc" THEN "Z" ELSE "">>

\* e.model_dump(mode="json")
ModelDumpJson(e) == [e EXCEPT !.timestamp = IsoFormat(e.timestamp)]

\* json.dumps(d): the keys of d in insertion order
JsonDumps(d) ==
    LET keys == SelectSeq(FieldOrder, LAMBDA k : k \in DOMAIN d)
    IN <<Open>> \o [i \in 1..Len(keys) |-> Kv(keys[i], d[keys[i]])] \o <<Close>>

\* json.loads(text) raises JSONDecodeError
JsonInvalid(text) ==
    \/ Len(text) < 2
    \/ text[1] # Open
    \/ text[Len(text)] # Close
    \/ \E i \in 2..(Len(text) - 1) : ~IsKv(text[i])

\* json.loads(text) of a valid text: the last pair of a repeated key wins
JsonLoads(text) ==
    LET body == 2..(Len(text) - 1)
        keys == {text[i][2] : i \in body}
    IN [k \in keys |->
          text[CHOOSE i \in body : text[i][2] = k /\ \A j \in body : text[j][2] = k => j <= i][3]]

_event_to_line(e) == JsonDumps(ModelDumpJson(e))

\* line.strip() is empty
IsBlank(line) == line = <<>>

_parse_line(line) ==
    IF IsBlank(line) THEN None
    ELSE IF JsonInvalid(line) THEN None
    ELSE JsonLoads(line)

\* Python truth of what _parse_line returns: None and {} are false
Truthy(d) == d # None /\ DOMAIN d # {}

\* datetime.fromisoformat(raw.replace("Z", "+00:00"))
FromIsoFormat(raw) ==
    IF raw[2] = "Z" THEN Utc(raw[1])
    ELSE IF raw[2] = "" THEN Naive(raw[1])
    ELSE None

_parse_ts(d) ==
    IF "timestamp" \notin DOMAIN d THEN None
    ELSE FromIsoFormat(d["timestamp"])

RECURSIVE SumBytes(_)
SumBytes(toks) ==
    IF toks = <<>> THEN 0
    ELSE (IF IsKv(Head(toks)) /\ Head(toks)[2] = "message"
          THEN MessageBytes(Head(toks)[3]) ELSE TokenBytes) + SumBytes(Tail(toks))

\* bytes of one line of the file, its newline included
LineBytes(line) == SumBytes(line) + 1

RECURSIVE SumOver(_, _)
\* the sum of the sizes in `sizes`, each taken as often as count[size] says
SumOver(sizes, count) ==
    IF sizes = {} THEN 0
    ELSE LET b == CHOOSE x \in sizes : TRUE
         IN b * count[b] + SumOver(sizes \ {b}, count)

\* os.path.getsize(LOG_PATH)
FileBytes(lines) ==
    LET sizes == {LineBytes(lines[i]) : i \in 1..Len(lines)}
        count == [b \in sizes |-> Cardinality({i \in 1..Len(lines) : LineBytes(lines[i]) = b})]
    IN SumOver(sizes, count)

Max(a, b) == IF a >= b THEN a ELSE b
Min(a, b) == IF a <= b THEN a ELSE b

\* reversed(s)
Reverse(s) == [i \in 1..Len(s) |-> s[Len(s) + 1 - i]]

\* Python's seq[start:]
PySliceFrom(seq, start) ==
    LET from == IF start < 0 THEN Max(Len(seq) + start, 0) ELSE Min(start, Len(seq))
    IN SubSeq(seq, from + 1, Len(seq))

\* a window test that is strict at the cutoff
InWindowStrict(ts, cutoff) == ts # None /\ ts.wall > cutoff

\* ts.replace(tzinfo=timezone.utc) when ts.tzinfo is None, then ts >= cutoff
InWindow(ts, cutoff) == ts # None /\ ts.wall >= cutoff

\* lines 62-73: does the trim's first pass keep this line?
KeepsLine(line, cutoff) ==
    LET d == _parse_line(line)
    IN Truthy(d) /\ InWindow(_parse_ts(d), cutoff)

\* a fallback that keeps the first N lines
FallbackLinesFirst(lines) ==
    SubSeq(SelectSeq(lines, LAMBDA ln : ~IsBlank(ln)), 1,
           Min(KEEP_LAST_N_WHEN_EMPTY, Len(SelectSeq(lines, LAMBDA ln : ~IsBlank(ln)))))

\* lines 78-80: all_lines[-KEEP_LAST_N_WHEN_EMPTY:]
FallbackLines(lines) ==
    PySliceFrom(SelectSeq(lines, LAMBDA ln : ~IsBlank(ln)), -KEEP_LAST_N_WHEN_EMPTY)

\* a trim that writes the kept lines latest first
TrimNewestFirst(lines, clock) ==
    [lines |-> Reverse(SelectSeq(lines, LAMBDA ln : KeepsLine(ln, clock - WindowHours))),
     trim |-> "window"]

\* lines 61-83 on a file holding `lines`: [lines |-> the file rewritten, trim |-> mode]
Trim(lines, clock) ==
    LET cutoff == clock - WindowHours
        kept == SelectSeq(lines, LAMBDA ln : KeepsLine(ln, cutoff))
    IN IF kept # <<>>
       THEN [lines |-> kept, trim |-> "window"]
       ELSE [lines |-> FallbackLines(lines), trim |-> "fallback"]

\* lines 58-83, the file holding `written` after the write of lines 55-57
AfterWrite(written, clock) ==
    IF FileBytes(written) <= MAX_FILE_BYTES
    THEN [exists |-> TRUE, lines |-> written, written |-> written, trim |-> "none"]
    ELSE [exists |-> TRUE, lines |-> Trim(written, clock).lines, written |-> written,
          trim |-> Trim(written, clock).trim]

\* append_events(events) on a store <<exists, lines>> at time `clock`
append_events(exists, lines, events, clock) ==
    IF events = <<>>
    THEN [exists |-> exists, lines |-> lines, written |-> lines, trim |-> "none"]
    ELSE AfterWrite(lines \o [i \in 1..Len(events) |-> _event_to_line(events[i])], clock)

\* a read-back that forgets to reverse
ParsedNewestFirstUnreversed(lines) ==
    LET parsed == [i \in 1..Len(lines) |-> _parse_line(lines[i])]
    IN SelectSeq(parsed, Truthy)

\* lines 95-99: the parsed lines, newest first, unparseable ones skipped
ParsedNewestFirst(lines) ==
    LET rev == Reverse(lines)
        parsed == [i \in 1..Len(rev) |-> _parse_line(rev[i])]
    IN SelectSeq(parsed, Truthy)

\* read_last_events(limit) on a store <<exists, lines>>
read_last_events(exists, lines, limit) ==
    IF ~exists THEN <<>>
    ELSE ParsedNewestFirst(PySliceFrom(SelectSeq(lines, LAMBDA ln : ~IsBlank(ln)), -limit))

(***************************************************************************)
(* The store under direct use: append_events as webhook calls it (with a   *)
(* non-empty `new`, whose keys the detector has made pairwise distinct and *)
(* new to the process), read_last_events as get_events calls it, and the   *)
(* clock.  The file at LOG_PATH outlives the process, so the store starts  *)
(* as an earlier run (or a crash in mid-write, or a change of the record   *)
(* shape) left it.                                                         *)
(***************************************************************************)
DEFAULT_LIMIT == 200

OldStamp == Utc(Now0 - WindowHours)     \* in the window at Now0, stale one hour later
NewStamp == Utc(Now0)
StaleStamp == Utc(Now0 - WindowHours - 1)

LogEvent(update_id, message, timestamp) ==
    UnifiedEvent("test-page", "API Degradation", "monitoring", message, timestamp,
                 "inc-1_" \o update_id)

\* upd-1 carries a created_at without offset, hence a naive timestamp
LogEvents ==
    { LogEvent("upd-1", "We are monitoring.", Naive(Now0 - WindowHours)),
      LogEvent("upd-3", LongMessage, OldStamp),
      LogEvent("upd-4", LongMessage, NewStamp) }

\* lines an earlier run left behind
StaleLongLine == _event_to_line(LogEvent("upd-9", LongMessage, StaleStamp))
TruncatedLine == SubSeq(StaleLongLine, 1, 3)
NoTimestampLine == JsonDumps([source_id |-> "test-page", event_id |-> "inc-1_upd-7"])
BadTimestampLine ==
    JsonDumps([ModelDumpJson(LogEvent("upd-6", "We are investigating.", StaleStamp))
                 EXCEPT !.timestamp = <<0, "?">>])
BlankLine == <<>>

InitLines == {StaleLongLine, TruncatedLine, NoTimestampLine, BadTimestampLine, BlankLine}

\* BulkLen stale records with distinct ids, then one long stale record
BulkLog ==
    [i \in 1..BulkLen |->
        _event_to_line(LogEvent("old-" \o ToString(i), "We are investigating.", StaleStamp))]
    \o <<StaleLongLine>>

InitLogs == SeqsUpTo(InitLines, MaxInitLen) \cup {BulkLog}

LogBatches == SeqsUpTo(LogEvents, MaxAppendLen) \ {<<>>}

Limits == 0..MaxLimit \cup {DEFAULT_LIMIT}

\* the store as an earlier run left it (or absent); no request, no poll, no demo
LogInit ==
    /\ now = Now0
    /\ \/ logExists = FALSE /\ logLines = <<>>
       \/ logExists = TRUE /\ logLines \in InitLogs
    /\ cleanStart = (logLines = <<>>)
    /\ lastOp = "none" /\ lastWritten = <<>> /\ lastTrim = "none"
    /\ lastLimit = 0 /\ result = <<>>
    /\ appended = <<>> /\ trimmed = FALSE
    /\ trimPc = "idle" /\ trimFrom = <<>> /\ trimKept = <<>> /\ trimPending = <<>>
    /\ hookSeen = EmptySeen /\ inflight = <<>> /\ hookNew = <<>>
    /\ hookCount = 0 /\ hookRaced = FALSE /\ hookEmitted = {}
    /\ hookBody = None /\ hookProvider = NoProvider /\ hookPrevSeen = EmptySeen
    /\ hookRaised = FALSE
    /\ pollSeen = EmptySeen /\ pollNew = <<>> /\ pollCount = 0 /\ pollEmitted = {}
    /\ pollCache = EmptyCache /\ pollGood = EmptyCache
    /\ pollCall = None /\ pollPrevCache = EmptyCache /\ pollStatus = "none"
    /\ pollSummary = None /\ pollEvents = <<>>
    /\ demoSeen = EmptySeen /\ demoBase = <<>> /\ demoPc = "start"
    /\ seen_before = EmptySeen /\ first_new = <<>> /\ second_new = <<>>

\* detector = ChangeDetector() and base = [...] of the demo; no store, no request
DemoInit ==
    /\ demoSeen = EmptySeen
    /\ demoBase \in DemoBatches
    /\ demoPc = "start"
    /\ seen_before = EmptySeen /\ first_new = <<>> /\ second_new = <<>>
    /\ now = Now0 /\ logExists = FALSE /\ logLines = <<>> /\ cleanStart = TRUE
    /\ lastOp = "none" /\ lastWritten = <<>> /\ lastTrim = "none"
    /\ lastLimit = 0 /\ result = <<>>
    /\ appended = <<>> /\ trimmed = FALSE
    /\ trimPc = "idle" /\ trimFrom = <<>> /\ trimKept = <<>> /\ trimPending = <<>>
    /\ hookSeen = EmptySeen /\ inflight = <<>> /\ hookNew = <<>>
    /\ hookCount = 0 /\ hookRaced = FALSE /\ hookEmitted = {}
    /\ hookBody = None /\ hookProvider = NoProvider /\ hookPrevSeen = EmptySeen
    /\ hookRaised = FALSE
    /\ pollSeen = EmptySeen /\ pollNew = <<>> /\ pollCount = 0 /\ pollEmitted = {}
    /\ pollCache = EmptyCache /\ pollGood = EmptyCache
    /\ pollCall = None /\ pollPrevCache = EmptyCache /\ pollStatus = "none"
    /\ pollSummary = None /\ pollEvents = <<>>

\* both processes just started: detectors empty, the store absent
PipelineInit ==
    /\ hookSeen = EmptySeen /\ inflight = <<>> /\ hookNew = <<>>
    /\ hookCount = 0 /\ hookRaced = FALSE /\ hookEmitted = {}
    /\ hookBody = None /\ hookProvider = NoProvider /\ hookPrevSeen = EmptySeen
    /\ hookRaised = FALSE
    /\ pollSeen = EmptySeen /\ pollNew = <<>> /\ pollCount = 0 /\ pollEmitted = {}
    /\ pollCache = EmptyCache /\ pollGood = EmptyCache
    /\ pollCall = None /\ pollPrevCache = EmptyCache /\ pollStatus = "none"
    /\ pollSummary = None /\ pollEvents = <<>>
    /\ now = Now0 /\ logExists = FALSE /\ logLines = <<>> /\ cleanStart = TRUE
    /\ lastOp = "none" /\ lastWritten = <<>> /\ lastTrim = "none"
    /\ lastLimit = 0 /\ result = <<>>
    /\ appended = <<>> /\ trimmed = FALSE
    /\ trimPc = "idle" /\ trimFrom = <<>> /\ trimKept = <<>> /\ trimPending = <<>>
    /\ demoSeen = EmptySeen /\ demoBase = <<>> /\ demoPc = "start"
    /\ seen_before = EmptySeen /\ first_new = <<>> /\ second_new = <<>>

\* the time passes; no call of event_log is in progress
Tick ==
    /\ now < Now0 + MaxTicks
    /\ now' = now + 1
    /\ lastOp' = "none"
    /\ lastWritten' = <<>>
    /\ lastTrim' = "none"
    /\ lastLimit' = 0
    /\ result' = <<>>
    /\ UNCHANGED <<logExists, logLines, appended, cleanStart, trimmed,
                   trimPc, trimFrom, trimKept, trimPending>>

\* log_append_events(new), new non-empty
LogAppend(new) ==
    /\ new # <<>>
    /\ \A i, j \in 1..Len(new) : i # j => Key(new[i]) # Key(new[j])
    /\ \A i \in 1..Len(new) : \A k \in 1..Len(appended) : Key(new[i]) # Key(appended[k])
    /\ \E r \in {append_events(logExists, logLines, new, now)} :
          /\ logExists' = r.exists
          /\ logLines' = r.lines
          /\ lastWritten' = r.written
          /\ lastTrim' = r.trim
          /\ trimmed' = (trimmed \/ r.trim # "none")
    /\ lastOp' = "append"
    /\ appended' = appended \o new
    /\ lastLimit' = 0
    /\ result' = <<>>
    /\ UNCHANGED <<now, cleanStart, trimPc, trimFrom, trimKept, trimPending>>

\* get_events(limit): events = read_last_events(limit=limit)
LogRead(limit) ==
    /\ result' = read_last_events(logExists, logLines, limit)
    /\ lastLimit' = limit
    /\ lastOp' = "read"
    /\ lastWritten' = <<>>
    /\ lastTrim' = "none"
    /\ UNCHANGED <<now, logExists, logLines, appended, cleanStart, trimmed,
                   trimPc, trimFrom, trimKept, trimPending>>

(***************************************************************************)
(* append_events in steps.  Its rewrite (lines 81-83) opens LOG_PATH with   *)
(* mode "w", which truncates the file, and then writes `kept` line by      *)
(* line.  An OSError out of open or write (disk full, permissions) ends    *)
(* the call in the middle; so does the end of the process.  The event loop *)
(* of the server runs no other handler inside append_events, so get_events *)
(* reads the store between calls only.                                     *)
(***************************************************************************)
\* lines 50-80: the write, the size check and, over the threshold, the choice of kept
AppendBegin(new) ==
    /\ trimPc \in {"idle", "done", "stopped"}
    /\ new # <<>>
    /\ \A i, j \in 1..Len(new) : i # j => Key(new[i]) # Key(new[j])
    /\ \A i \in 1..Len(new) : \A k \in 1..Len(appended) : Key(new[i]) # Key(appended[k])
    /\ \E written \in {logLines \o [i \in 1..Len(new) |-> _event_to_line(new[i])]} :
          /\ logExists' = TRUE
          /\ logLines' = written
          /\ lastWritten' = written
          /\ IF FileBytes(written) <= MAX_FILE_BYTES
             THEN /\ trimPc' = "idle"
                  /\ trimFrom' = <<>>
                  /\ trimKept' = <<>>
                  /\ lastTrim' = "none"
                  /\ lastOp' = "append"
                  /\ trimmed' = trimmed
             ELSE /\ trimPc' = "kept"
                  /\ trimFrom' = written
                  /\ trimKept' = Trim(written, now).lines
                  /\ lastTrim' = Trim(written, now).trim
                  /\ lastOp' = "none"
                  /\ trimmed' = TRUE
    /\ appended' = appended \o new
    /\ trimPending' = <<>>
    /\ lastLimit' = 0
    /\ result' = <<>>
    /\ UNCHANGED <<now, cleanStart>>

\* line 81: open(LOG_PATH, "w") leaves the file empty
RewriteOpen ==
    /\ trimPc = "kept"
    /\ trimPc' = "writing"
    /\ logLines' = <<>>
    /\ trimPending' = trimKept
    /\ UNCHANGED <<now, logExists, lastOp, lastWritten, lastTrim, lastLimit, result,
                   appended, cleanStart, trimmed, trimFrom, trimKept>>

\* lines 82-83: the next line of kept reaches the file
RewriteLine ==
    /\ trimPc = "writing"
    /\ trimPending # <<>>
    /\ logLines' = Append(logLines, Head(trimPending))
    /\ trimPending' = Tail(trimPending)
    /\ UNCHANGED <<now, logExists, lastOp, lastWritten, lastTrim, lastLimit, result,
                   appended, cleanStart, trimmed, trimPc, trimFrom, trimKept>>

\* line 83, the end of the with block: the file is closed and append_events returns
RewriteClose ==
    /\ trimPc = "writing"
    /\ trimPending = <<>>
    /\ trimPc' = "done"
    /\ lastOp' = "append"
    /\ UNCHANGED <<now, logExists, logLines, lastWritten, lastTrim, lastLimit, result,
                   appended, cleanStart, trimmed, trimFrom, trimKept, trimPending>>

\* the rewrite ends early: OSError at line 81 or 83, or the process ends; the file
\* stays as it is
RewriteStop ==
    /\ trimPc \in {"kept", "writing"}
    /\ trimPc' = "stopped"
    /\ trimPending' = <<>>
    /\ lastOp' = "none"
    /\ UNCHANGED <<now, logExists, logLines, lastWritten, lastTrim, lastLimit, result,
                   appended, cleanStart, trimmed, trimFrom, trimKept>>

\* get_events(limit) between two calls of append_events
StoreRead(limit) ==
    /\ trimPc \in {"idle", "done", "stopped"}
    /\ result' = read_last_events(logExists, logLines, limit)
    /\ lastLimit' = limit
    /\ lastOp' = "read"
    /\ UNCHANGED <<now, logExists, logLines, lastWritten, lastTrim, appended, cleanStart,
                   trimmed, trimPc, trimFrom, trimKept, trimPending>>

RewriteNext ==
    \/ \E new \in LogBatches :
          AppendBegin(new) /\ UNCHANGED <<hookVars, pollVars, demoVars>>
    \/ RewriteOpen /\ UNCHANGED <<hookVars, pollVars, demoVars>>
    \/ RewriteLine /\ UNCHANGED <<hookVars, pollVars, demoVars>>
    \/ RewriteClose /\ UNCHANGED <<hookVars, pollVars, demoVars>>
    \/ RewriteStop /\ UNCHANGED <<hookVars, pollVars, demoVars>>
    \/ \E limit \in Limits : StoreRead(limit) /\ UNCHANGED <<hookVars, pollVars, demoVars>>

SpecRewrite == LogInit /\ [][RewriteNext]_vars

LogNext ==
    \/ Tick /\ UNCHANGED <<hookVars, pollVars, demoVars>>
    \/ \E new \in LogBatches :
          LogAppend(new) /\ UNCHANGED <<hookVars, pollVars, demoVars>>
    \/ \E limit \in Limits : LogRead(limit) /\ UNCHANGED <<hookVars, pollVars, demoVars>>

SpecLog == LogInit /\ [][LogNext]_vars

DemoNext ==
    \/ \E batch \in DemoBatches : DemoEarlier(batch) /\ UNCHANGED <<logVars, hookVars, pollVars>>
    \/ DemoFirst /\ UNCHANGED <<logVars, hookVars, pollVars>>
    \/ DemoSecond /\ UNCHANGED <<logVars, hookVars, pollVars>>

SpecDetector == DemoInit /\ [][DemoNext]_vars

(***************************************************************************)
(* providers/atlassian.py: AtlassianAdapter.                                *)
(***************************************************************************)
\* d.get(k, default)
Get(d, k, default) == IF k \in DOMAIN d THEN d[k] ELSE default

EmptyDict == [k \in {} |-> {}]

\* datetime.now(): the local wall clock, naive
LocalNow(clock) == Naive(clock + LocalOffsetHours)

\* an ISO-8601 string that carries no text
NoCreatedAt == <<0, "-">>

\* _normalize_to_events raises ValueError: some created_at is not ISO-8601
NormalizeRaises(summary) ==
    \E i \in 1..Len(summary.incidents) :
        \E j \in 1..Len(summary.incidents[i].incident_updates) :
            FromIsoFormat(summary.incidents[i].incident_updates[j].created_at) = None

\* the events of one incident, the latest update first
IncidentEventsNewestFirst(incident, source_id) ==
    [j \in 1..Len(incident.incident_updates) |->
        LET update == incident.incident_updates[Len(incident.incident_updates) + 1 - j]
        IN UnifiedEvent(source_id, incident.name, update.status, update.body,
                        FromIsoFormat(update.created_at),
                        incident.id \o "_" \o update.id)]

\* the events of one incident of a summary, one per update
IncidentEvents(incident, source_id) ==
    [j \in 1..Len(incident.incident_updates) |->
        LET update == incident.incident_updates[j]
        IN UnifiedEvent(source_id, incident.name, update.status, update.body,
                        FromIsoFormat(update.created_at),
                        incident.id \o "_" \o update.id)]

RECURSIVE Flatten(_)
Flatten(seqs) == IF seqs = <<>> THEN <<>> ELSE Head(seqs) \o Flatten(Tail(seqs))

_normalize_to_events(summary, source_id) ==
    Flatten([i \in 1..Len(summary.incidents) |->
                IncidentEvents(summary.incidents[i], source_id)])

\* fetch_events(session, target), the fetched summary given
fetch_events(summary, target) ==
    _normalize_to_events(summary, Get(target, "name", summary.page.name))

\* A target's url is <<base, n>>: the text `base` followed by n slashes.
\* base_url = target["url"].rstrip("/"); url = f"{base_url}/api/v2/summary.json"
SummaryUrl(target) == target.url[1] \o "/api/v2/summary.json"

\* The provider's answer to the GET of line 70:
\*   [kind |-> "error"]  no answer (aiohttp.ClientError, timeout), or
\*   [kind |-> "http", status |-> code, last_modified |-> header ("" when absent),
\*    body |-> [json |-> "invalid"] or [json |-> "object", data |-> the object]]
Http(status, last_modified, body) ==
    [kind |-> "http", status |-> status, last_modified |-> last_modified, body |-> body]

RequiredPage == {"id", "name", "url"}
RequiredIncident == {"id", "name", "impact", "status"}
RequiredUpdate == {"id", "body", "status", "created_at"}

\* lines 75-80 raise: resp.json() fails, data["page"] is missing, or pydantic
\* rejects a page, incident or update that lacks a required field
SummaryParseRaises(body) ==
    \/ body.json # "object"
    \/ "page" \notin DOMAIN body.data
    \/ ~(RequiredPage \subseteq DOMAIN body.data["page"])
    \/ \E i \in 1..Len(Get(body.data, "incidents", <<>>)) :
          LET inc == body.data["incidents"][i]
          IN \/ ~(RequiredIncident \subseteq DOMAIN inc)
             \/ \E j \in 1..Len(Get(inc, "incident_updates", <<>>)) :
                   ~(RequiredUpdate \subseteq DOMAIN inc["incident_updates"][j])

\* lines 76-80: StatusPageSummary(page=..., components=..., incidents=...)
StatusPageSummary(data) ==
    [page |-> data["page"],
     components |-> Get(data, "components", <<>>),
     incidents |-> [i \in 1..Len(Get(data, "incidents", <<>>)) |->
                      [data["incidents"][i] EXCEPT !.incident_updates =
                          Get(data["incidents"][i], "incident_updates", <<>>)]]]

\* a cache read that drops the incidents of the cached summary
CachedSummaryWithoutIncidents(cache, url) == [cache[url][1] EXCEPT !.incidents = <<>>]

\* line 72: self._cache[url][0]
CachedSummary(cache, url) == cache[url][1]

\* line 81: self._cache[url] = (summary, last_modified)
StoreInCache(cache, url, summary, last_modified) ==
    [u \in DOMAIN cache \cup {url} |->
        IF u = url THEN <<summary, last_modified>> ELSE cache[u]]

\* fetch_summary(session, target) on an adapter whose _cache is `cache`, the provider
\* answering `resp`: [status |-> "ok" or the failure, summary |-> the summary
\* returned, cache |-> _cache afterwards]
fetch_summary(cache, target, resp) ==
    LET url == SummaryUrl(target)
        fails(why) == [status |-> why, summary |-> None, cache |-> cache]
    IN IF resp.kind = "error" THEN fails("transport")
       ELSE IF resp.status = 304
            THEN IF url \in DOMAIN cache
                 THEN [status |-> "ok", summary |-> CachedSummary(cache, url), cache |-> cache]
                 ELSE fails("nocache")
       ELSE IF resp.status \notin 200..299 THEN fails("transport")
       ELSE IF SummaryParseRaises(resp.body) THEN fails("parse")
       ELSE [status |-> "ok", summary |-> StatusPageSummary(resp.body.data),
             cache |-> StoreInCache(cache, url, StatusPageSummary(resp.body.data),
                                    resp.last_modified)]

\* lines 133-137 and 151-155: the timestamp of a webhook update
WebhookTimestamp(upd, clock) ==
    LET ts == Get(upd, "created_at", NoCreatedAt)
    IN IF ts = NoCreatedAt THEN LocalNow(clock)
       ELSE IF FromIsoFormat(ts) = None THEN LocalNow(clock)
       ELSE FromIsoFormat(ts)

\* lines 128-147: the events of the "incident" key
WebhookIncidentEvents(data, source_id, clock) ==
    IF "incident" \notin DOMAIN data THEN <<>>
    ELSE LET inc == data["incident"]
             upds == Get(inc, "incident_updates", <<>>)
         IN [j \in 1..Len(upds) |->
                UnifiedEvent(source_id, Get(inc, "name", "Incident"),
                             Get(upds[j], "status", ""), Get(upds[j], "body", ""),
                             WebhookTimestamp(upds[j], clock),
                             Get(inc, "id", "") \o "_" \o Get(upds[j], "id", ""))]

\* lines 148-165: the event of the "component_update" key
WebhookComponentEvents(data, source_id, clock) ==
    IF ~("component_update" \in DOMAIN data /\ "component" \in DOMAIN data) THEN <<>>
    ELSE LET comp == data["component"]
             upd == data["component_update"]
         IN << UnifiedEvent(source_id, Get(comp, "name", "Component"),
                            Get(upd, "new_status", ""),
                            "Status: " \o Get(upd, "old_status", "") \o " -> "
                                \o Get(upd, "new_status", ""),
                            WebhookTimestamp(upd, clock),
                            "comp_" \o Get(comp, "id", "") \o "_" \o Get(upd, "id", "")) >>

\* a JSON string
Scalar(text) == [scalar |-> text]
IsScalar(v) == DOMAIN v = {"scalar"}

\* isinstance(v, dict)
IsDict(v) == v # None /\ ~IsScalar(v)

\* data.get("page") or {}
PageOrEmpty(data) ==
    IF Get(data, "page", None) = None THEN EmptyDict ELSE data["page"]

\* parse_webhook(body, headers) raises: UnicodeDecodeError at line 120, or
\* AttributeError at a .get of something that is no dict (lines 126-163)
ParseWebhookRaises(body) ==
    \/ body.json = "not-utf8"
    \/ body.json = "array"
    \/ /\ body.json = "object"
       /\ \/ ~IsDict(PageOrEmpty(body.data))
          \/ "incident" \in DOMAIN body.data /\ ~IsDict(body.data["incident"])
          \/ /\ "component_update" \in DOMAIN body.data
             /\ "component" \in DOMAIN body.data
             /\ \/ ~IsDict(body.data["component"])
                \/ ~IsDict(body.data["component_update"])

\* parse_webhook(body, headers) at time `clock`, when it returns
parse_webhook(body, clock) ==
    IF body.json # "object" THEN <<>>
    ELSE LET data == body.data
             page == PageOrEmpty(data)
             source_id == Get(page, "id", "atlassian")
         IN WebhookIncidentEvents(data, source_id, clock)
                \o WebhookComponentEvents(data, source_id, clock)

(***************************************************************************)
(* webhook_server.py.                                                      *)
(***************************************************************************)
Adapters == {"atlassian"}

\* a detection that looks at the key "page" alone
DetectByPageAlone(body) ==
    IF body.json = "object" /\ "page" \in DOMAIN body.data THEN "atlassian" ELSE NoProvider

_detect_webhook_provider(body) ==
    IF body.json # "object" THEN NoProvider
    ELSE IF "page" \in DOMAIN body.data
            /\ ("incident" \in DOMAIN body.data \/ "component_update" \in DOMAIN body.data)
         THEN "atlassian"
         ELSE NoProvider

\* lines 40-45: `events` of a request
WebhookEvents(body, clock) ==
    IF _detect_webhook_provider(body) # NoProvider /\ _detect_webhook_provider(body) \in Adapters
    THEN parse_webhook(body, clock)
    ELSE <<>>

\* line 45 raises
WebhookRaises(body) ==
    /\ _detect_webhook_provider(body) # NoProvider
    /\ _detect_webhook_provider(body) \in Adapters
    /\ ParseWebhookRaises(body)

\* no webhook request ended in this step
HookStepNone ==
    /\ hookNew' = <<>>
    /\ hookBody' = None
    /\ hookProvider' = NoProvider
    /\ hookPrevSeen' = EmptySeen
    /\ hookRaised' = FALSE

\* no run_once ended in this step
PollStepNone ==
    /\ pollNew' = <<>>
    /\ pollCall' = None
    /\ pollPrevCache' = EmptyCache
    /\ pollStatus' = "none"
    /\ pollSummary' = None
    /\ pollEvents' = <<>>

\* no call of event_log ended in this step
LogStepNone ==
    /\ lastOp' = "none"
    /\ lastWritten' = <<>>
    /\ lastTrim' = "none"
    /\ lastLimit' = 0
    /\ result' = <<>>

\* a step of another process or component: the webhook server's state stays
HookQuiet == HookStepNone /\ UNCHANGED <<hookSeen, inflight, hookCount, hookRaced, hookEmitted>>

\* a step of another process: the poller's state stays
PollQuiet == PollStepNone /\ UNCHANGED <<pollSeen, pollCount, pollEmitted, pollCache, pollGood>>

\* a step that calls nothing of event_log: the store stays
LogQuiet ==
    /\ LogStepNone
    /\ UNCHANGED <<now, logExists, logLines, appended, cleanStart, trimmed,
                   trimPc, trimFrom, trimKept, trimPending>>

\* webhook, up to `body = await request.body()`: the request is accepted and suspended
WebhookReceive(body) ==
    /\ hookCount < MaxRequests
    /\ hookCount' = hookCount + 1
    /\ inflight' = Append(inflight, body)
    /\ HookStepNone
    /\ LogQuiet
    /\ UNCHANGED <<hookSeen, hookRaced, hookEmitted>>

\* webhook, from the resumption after `await request.body()` to `return "OK"`: no
\* await in between, so the event loop runs no other request meanwhile.  With
\* storage_ok false, _ensure_dir or open raises in append_events before a byte is
\* written and the exception ends the request.  When parse_webhook raises, the
\* exception ends the request at line 45.
WebhookHandle(k, storage_ok) ==
    /\ k \in 1..Len(inflight)
    /\ hookBody' = inflight[k]
    /\ hookProvider' = _detect_webhook_provider(inflight[k])
    /\ hookPrevSeen' = hookSeen
    /\ hookRaised' = WebhookRaises(inflight[k])
    /\ \E r \in {IF WebhookRaises(inflight[k])
                 THEN [seen |-> hookSeen, new |-> <<>>]
                 ELSE filter_new(hookSeen, WebhookEvents(inflight[k], now))} :
          /\ hookSeen' = r.seen
          /\ hookNew' = r.new
          /\ hookEmitted' = hookEmitted \cup {Key(r.new[i]) : i \in 1..Len(r.new)}
          /\ IF r.new # <<>> /\ storage_ok
             THEN \E a \in {append_events(logExists, logLines, r.new, now)} :
                     /\ logExists' = a.exists
                     /\ logLines' = a.lines
                     /\ lastWritten' = a.written
                     /\ lastTrim' = a.trim
                     /\ trimmed' = (trimmed \/ a.trim # "none")
                     /\ lastOp' = "append"
                     /\ appended' = appended \o r.new
             ELSE /\ (r.new = <<>>) => storage_ok
                  /\ lastWritten' = <<>>
                  /\ lastTrim' = "none"
                  /\ lastOp' = "none"
                  /\ UNCHANGED <<logExists, logLines, trimmed, appended>>
    /\ hookRaced' = (hookRaced \/ \E j \in 1..Len(inflight) : j # k /\ inflight[j] = inflight[k])
    /\ inflight' = [i \in 1..(Len(inflight) - 1) |-> IF i < k THEN inflight[i] ELSE inflight[i + 1]]
    /\ lastLimit' = 0
    /\ result' = <<>>
    /\ UNCHANGED <<now, cleanStart, hookCount, trimPc, trimFrom, trimKept, trimPending>>

(***************************************************************************)
(* main.py.                                                                *)
(***************************************************************************)
\* run_once(session, target, adapter, detector), the provider answering `resp`.
\* When fetch_events raises (in fetch_summary, or ValueError in
\* _normalize_to_events after fetch_summary has returned), run_once ends before
\* filter_new.
run_once(target, resp) ==
    /\ pollCount < MaxPolls
    /\ pollCount' = pollCount + 1
    /\ pollCall' = [url |-> SummaryUrl(target), resp |-> resp]
    /\ pollPrevCache' = pollCache
    /\ \E f \in {fetch_summary(pollCache, target, resp)} :
          /\ pollCache' = f.cache
          /\ pollSummary' = f.summary
          /\ pollGood' = IF f.status = "ok" /\ resp.status # 304
                         THEN StoreInCache(pollGood, SummaryUrl(target), f.summary, "")
                         ELSE pollGood
          /\ IF f.status # "ok"
             THEN /\ pollStatus' = f.status
                  /\ pollEvents' = <<>>
                  /\ pollNew' = <<>>
                  /\ UNCHANGED <<pollSeen, pollEmitted>>
             ELSE IF NormalizeRaises(f.summary)
             THEN /\ pollStatus' = "normalize"
                  /\ pollEvents' = <<>>
                  /\ pollNew' = <<>>
                  /\ UNCHANGED <<pollSeen, pollEmitted>>
             ELSE \E r \in {filter_new(pollSeen, fetch_events(f.summary, target))} :
                     /\ pollStatus' = "ok"
                     /\ pollEvents' = fetch_events(f.summary, target)
                     /\ pollSeen' = r.seen
                     /\ pollNew' = r.new
                     /\ pollEmitted' = pollEmitted \cup
                            {<<f.summary.page.id, r.new[i].event_id>> : i \in 1..Len(r.new)}

(***************************************************************************)
(* The pipeline: the poller (main.py) and the webhook server                *)
(* (webhook_server.py) run as two processes beside one status page.         *)
(***************************************************************************)
PageId == "test-page"
Page == [id |-> PageId, name |-> "Test Page", url |-> "https://status.example"]

Update(id, created_at) ==
    [id |-> id, body |-> "We are monitoring.", status |-> "monitoring", created_at |-> created_at]

Upd1 == Update("upd-1", <<Now0, "Z">>)
Upd2 == Update("upd-2", <<Now0, "Z">>)
UpdBadDate == Update("upd-4", <<0, "?">>)

Incident(updates) ==
    [id |-> "inc-1", name |-> "API Degradation", impact |-> "minor", status |-> "monitoring",
     incident_updates |-> updates]

Summaries ==
    { [page |-> Page, incidents |-> incs] :
        incs \in {<<>>, <<Incident(<<Upd1>>)>>, <<Incident(<<Upd1, Upd2>>)>>,
                  <<Incident(<<Upd1, UpdBadDate>>)>>} }

BaseUrl == "https://status.example"

\* the second target writes its url with a trailing slash
Targets ==
    { [name |-> "OpenAI", url |-> <<BaseUrl, 0>>],
      [name |-> PageId, url |-> <<BaseUrl, 1>>],
      [url |-> <<BaseUrl, 0>>] }

\* 200 OK carrying the document `data`
Ok200(data) == Http(200, "Mon, 03 Nov 2025 14:32:00 GMT", [json |-> "object", data |-> data])

ObjectBody(data) == [json |-> "object", data |-> data]

Bodies ==
    { [json |-> "invalid", data |-> EmptyDict],
      [json |-> "array", data |-> EmptyDict],
      ObjectBody([page |-> [id |-> PageId]]),
      ObjectBody([page |-> [id |-> PageId], incident |-> Incident(<<Upd1>>)]),
      ObjectBody([page |-> [id |-> PageId], incident |-> Incident(<<Upd1, Upd2>>)]),
      ObjectBody([page |-> [id |-> PageId], incident |-> Incident(<<Upd2, Upd2>>)]),
      ObjectBody([page |-> [id |-> PageId], incident |-> Incident(<<UpdBadDate>>)]),
      ObjectBody([incident |-> Incident(<<Upd1>>)]),
      ObjectBody([page |-> [id |-> PageId],
                  component |-> [id |-> "cmp-1", name |-> "API"],
                  component_update |-> [id |-> "upd-1", old_status |-> "operational",
                                        new_status |-> "degraded_performance",
                                        created_at |-> <<Now0, "Z">>]]) }

PipelineNext ==
    \/ \E body \in Bodies : WebhookReceive(body) /\ PollQuiet /\ UNCHANGED demoVars
    \/ \E k \in 1..MaxRequests, storage_ok \in BOOLEAN :
          WebhookHandle(k, storage_ok) /\ PollQuiet /\ UNCHANGED demoVars
    \/ \E target \in Targets, summary \in Summaries :
          run_once(target, Ok200(summary)) /\ HookQuiet /\ LogQuiet /\ UNCHANGED demoVars

SpecPipeline == PipelineInit /\ [][PipelineNext]_vars

(***************************************************************************)
(* The poller alone (main.py with its adapter), polling two status pages   *)
(* whose provider answers with documents of every kind, with 304, with an  *)
(* error status, or not at all.                                            *)
(***************************************************************************)
\* an update without created_at
UpdNoDate == [id |-> "upd-5", body |-> "We are monitoring.", status |-> "monitoring"]

\* a repost: a second update under the id of Upd1
UpdRepost == Update("upd-1", <<Now0 - 1, "Z">>)

Incident2(updates) == [Incident(updates) EXCEPT !.id = "inc-2", !.name = "Dashboard errors"]

\* documents served as summary.json
Documents ==
    Summaries \cup
    { [page |-> Page, components |-> <<[id |-> "cmp-1", name |-> "API", status |-> "operational"]>>,
       incidents |-> <<Incident(<<Upd1, Upd2>>), Incident2(<<Upd2>>)>>],
      [page |-> Page, incidents |-> <<Incident(<<Upd1, UpdRepost>>)>>],
      [page |-> Page, incidents |-> <<Incident(<<UpdNoDate>>)>>],
      [incidents |-> <<>>] }

LastModified == "Mon, 03 Nov 2025 14:32:00 GMT"

Responses ==
    {Ok200(d) : d \in Documents} \cup
    { Http(200, "", [json |-> "object", data |-> [page |-> Page, incidents |-> <<>>]]),
      Http(200, LastModified, [json |-> "invalid"]),
      Http(304, LastModified, [json |-> "invalid"]),
      Http(500, "", [json |-> "invalid"]),
      [kind |-> "error"] }

PollTargets ==
    Targets \cup {[name |-> "Anthropic", url |-> <<"https://status.other.example", 0>>]}

PollerNext ==
    \E target \in PollTargets, resp \in Responses :
        run_once(target, resp) /\ HookQuiet /\ LogQuiet /\ UNCHANGED demoVars

SpecPoller == PipelineInit /\ [][PollerNext]_vars

(***************************************************************************)
(* The webhook server alone, under every kind of request body: bytes that  *)
(* are no UTF-8, no JSON, JSON that is no object, objects that lack keys,  *)
(* objects whose members are null or strings, updates without a usable     *)
(* created_at, and a payload that carries an incident and a component      *)
(* update at once.                                                         *)
(***************************************************************************)
PageOf(id) == [id |-> id]

ComponentUpdate(id, created_at) ==
    [id |-> id, old_status |-> "operational", new_status |-> "degraded_performance",
     created_at |-> created_at]

Component(id) == [id |-> id, name |-> "API"]

\* an update whose created_at carries no offset
UpdNaive == Update("upd-6", <<Now0 - 1, "">>)

\* an incident whose id is the text "comp"
IncidentNamedComp(updates) == [Incident(updates) EXCEPT !.id = "comp"]

MalformedBodies ==
    { [json |-> "not-utf8", data |-> EmptyDict],
      ObjectBody([page |-> None, incident |-> Incident(<<Upd1>>)]),
      ObjectBody([page |-> Scalar("test-page"), incident |-> Incident(<<Upd1>>)]),
      ObjectBody([page |-> PageOf(PageId), incident |-> None]),
      ObjectBody([page |-> PageOf(PageId), component |-> None,
                  component_update |-> ComponentUpdate("upd-1", <<Now0, "Z">>)]),
      ObjectBody([page |-> PageOf(PageId), component |-> Component("cmp-1"),
                  component_update |-> Scalar("degraded")]),
      ObjectBody([page |-> PageOf(PageId),
                  component_update |-> ComponentUpdate("upd-1", <<Now0, "Z">>)]) }

UndatedBodies ==
    { ObjectBody([page |-> PageOf(PageId), incident |-> Incident(<<UpdNoDate>>)]),
      ObjectBody([page |-> PageOf(PageId), incident |-> Incident(<<UpdNaive>>)]),
      ObjectBody([page |-> PageOf(PageId), component |-> Component("cmp-1"),
                  component_update |-> [id |-> "upd-7", new_status |-> "operational"]]) }

\* one payload with an incident update and a component update
BothBodies ==
    { ObjectBody([page |-> PageOf(PageId),
                  incident |-> Incident(<<Upd1>>),
                  component |-> Component("cmp-1"),
                  component_update |-> ComponentUpdate("upd-1", <<Now0, "Z">>)]),
      ObjectBody([page |-> PageOf(PageId),
                  incident |-> IncidentNamedComp(<<Update("cmp-1_upd-1", <<Now0, "Z">>)>>),
                  component |-> Component("cmp-1"),
                  component_update |-> ComponentUpdate("upd-1", <<Now0, "Z">>)]) }

HookBodies == Bodies \cup MalformedBodies \cup UndatedBodies \cup BothBodies

WebhookNext ==
    \/ \E body \in HookBodies : WebhookReceive(body) /\ UNCHANGED <<pollVars, demoVars>>
    \/ \E k \in 1..MaxRequests, storage_ok \in BOOLEAN :
          WebhookHandle(k, storage_ok) /\ UNCHANGED <<pollVars, demoVars>>

SpecWebhook == PipelineInit /\ [][WebhookNext]_vars

(***************************************************************************)
(* Properties of the store (SpecLog).                                      *)
(***************************************************************************)
\* the non-blank lines of the file
NonBlank(lines) == SelectSeq(lines, LAMBDA ln : ~IsBlank(ln))

\* the line holds a record: a JSON object with at least one key
IsRecord(line) == ~IsBlank(line) /\ ~JsonInvalid(line) /\ DOMAIN JsonLoads(line) # {}

\* the line holds a record whose timestamp can be read
HasStamp(line) ==
    /\ IsRecord(line)
    /\ "timestamp" \in DOMAIN JsonLoads(line)
    /\ JsonLoads(line)["timestamp"][2] \in {"Z", ""}

\* the instant of the record's timestamp, in hours UTC (no offset reads as UTC)
StampHours(line) == JsonLoads(line)["timestamp"][1]

\* the record is not older than 24 hours at `clock`
Fresh(line, clock) == HasStamp(line) /\ StampHours(line) >= clock - 24

\* the records of the file as dicts, the one appended last first
RecordsNewestFirst(lines) ==
    LET recs == SelectSeq(lines, IsRecord)
    IN [i \in 1..Len(recs) |-> JsonLoads(recs[Len(recs) + 1 - i])]

IsPrefix(s, t) == Len(s) <= Len(t) /\ s = SubSeq(t, 1, Len(s))

\* C5 (as claimed): for every limit >= 0, read_last_events(limit) returns at most
\* limit records, and they are the most recently appended records, newest first.
C5_AtMostLimitNewestFirst ==
    lastOp = "read" =>
        /\ Len(result) <= lastLimit
        /\ IsPrefix(result, RecordsNewestFirst(logLines))

\* C6 (as claimed, for limit >= 1): lines that fail to parse do not count against
\* limit: a store holding at least limit records yields exactly limit records.
C6_CorruptLinesDoNotCount ==
    (lastOp = "read" /\ lastLimit >= 1 /\ Len(RecordsNewestFirst(logLines)) >= lastLimit)
        => Len(result) = lastLimit

\* C7: from an empty or absent store, with no trim triggered, a read with
\* limit >= N after N events were appended returns exactly those N events (as the
\* dicts model_dump writes) in reverse append order.
C7_RoundTrip ==
    (lastOp = "read" /\ cleanStart /\ ~trimmed /\ lastLimit >= Len(appended))
        => result = [i \in 1..Len(appended) |->
                        ModelDumpJson(appended[Len(appended) + 1 - i])]

C7_Witness ==
    /\ lastOp = "read" /\ cleanStart /\ ~trimmed
    /\ Len(appended) = 2
    /\ lastLimit = 2

\* C8: when an append_events call leaves the store over the size threshold and at
\* least one record is within the last 24 hours, the store after the call holds
\* exactly the records not older than now - 24h, in their original order.
C8_WindowKeepsExactlyFresh ==
    (/\ lastOp = "append"
     /\ FileBytes(lastWritten) > MAX_FILE_BYTES
     /\ \E i \in 1..Len(lastWritten) : Fresh(lastWritten[i], now))
        => logLines = SelectSeq(lastWritten, LAMBDA ln : Fresh(ln, now))

C8_Witness ==
    /\ lastOp = "append"
    /\ FileBytes(lastWritten) > MAX_FILE_BYTES
    /\ \E i \in 1..Len(lastWritten) : Fresh(lastWritten[i], now)
    /\ \E i \in 1..Len(lastWritten) : HasStamp(lastWritten[i]) /\ ~Fresh(lastWritten[i], now)
    /\ \E i \in 1..Len(lastWritten) : Fresh(lastWritten[i], now) /\ StampHours(lastWritten[i]) = now - 24

\* every line before the trim is a record with a timestamp older than 24 hours
AllStale(lines, clock) ==
    \A i \in 1..Len(lines) : IsBlank(lines[i]) \/ (HasStamp(lines[i]) /\ ~Fresh(lines[i], clock))

\* the last n elements of s, all of them when s has fewer
LastN(s, n) == SubSeq(s, IF Len(s) > n THEN Len(s) - n + 1 ELSE 1, Len(s))

\* C9: if at trim time every record's timestamp is older than 24 hours, the store
\* after the trim holds exactly the last 100 records in file order (all of them if
\* fewer existed); and no trim leaves the store empty.
C9_FallbackKeepsLast100 ==
    (lastOp = "append" /\ FileBytes(lastWritten) > MAX_FILE_BYTES)
        => /\ logLines # <<>>
           /\ AllStale(lastWritten, now) => logLines = LastN(NonBlank(lastWritten), 100)

C9_Witness ==
    /\ lastOp = "append"
    /\ FileBytes(lastWritten) > MAX_FILE_BYTES
    /\ AllStale(lastWritten, now)
    /\ Len(NonBlank(lastWritten)) > 100

\* C10 (as claimed): no trim, by window or by fallback, leaves in the store a line
\* that fails to parse or a record whose timestamp is missing or unparseable.
C10_TrimDropsCorrupt ==
    (lastOp = "append" /\ lastTrim # "none")
        => \A i \in 1..Len(logLines) : HasStamp(logLines[i])

RECURSIVE IsSubseq(_, _)
\* s is t with some elements left out
IsSubseq(s, t) ==
    IF s = <<>> THEN TRUE
    ELSE IF t = <<>> THEN FALSE
    ELSE IF Head(s) = Head(t) THEN IsSubseq(Tail(s), Tail(t))
    ELSE IsSubseq(s, Tail(t))

\* the lines of every event appended since start, in append order
AppendedLines == [i \in 1..Len(appended) |-> _event_to_line(appended[i])]

\* C18: from an empty or absent store, after any sequence of append_events calls,
\* with or without trims, the lines of the store are a subsequence of the lines of
\* all appended events in append order; as long as no call has trimmed they are all
\* of them, and a call that does not trim leaves the file as its write left it.
C18_StoreIsSubsequenceOfAppends ==
    /\ cleanStart =>
          /\ IsSubseq(logLines, AppendedLines)
          /\ ~trimmed => logLines = AppendedLines
    /\ (lastOp = "append" /\ lastTrim = "none") => logLines = lastWritten

C18_Witness ==
    /\ cleanStart
    /\ lastOp = "append" /\ lastTrim = "window"
    /\ Len(appended) = 3
    /\ Len(logLines) < 3
    /\ logLines # <<>>

(***************************************************************************)
(* Properties of the detector (SpecDetector).                              *)
(***************************************************************************)
\* the detector had seen no id of the batch when the first call began
BatchUnseen ==
    \A i \in 1..Len(demoBase) :
        ~(/\ demoBase[i].source_id \in DOMAIN seen_before
          /\ demoBase[i].event_id \in seen_before[demoBase[i].source_id])

\* no (source_id, event_id) occurs twice in the batch
DistinctKeys(batch) ==
    \A i, j \in 1..Len(batch) :
        (batch[i].source_id = batch[j].source_id /\ batch[i].event_id = batch[j].event_id)
            => i = j

\* the batch without the events whose (source_id, event_id) occurred earlier in it
FirstOccurrences(batch) ==
    LET first(i) == \A j \in 1..(i - 1) :
                        ~(batch[j].source_id = batch[i].source_id
                          /\ batch[j].event_id = batch[i].event_id)
        idx == {i \in 1..Len(batch) : first(i)}
        rank(i) == Cardinality({j \in idx : j <= i})
    IN [n \in 1..Cardinality(idx) |-> batch[CHOOSE i \in idx : rank(i) = n]]

\* C1 (as claimed): for any batch unseen by the detector, two calls of filter_new in
\* a row return the full batch, then an empty list.
C1_FullThenEmpty ==
    (demoPc = "second" /\ BatchUnseen) => (first_new = demoBase /\ second_new = <<>>)

\* C1 (amended): for any batch unseen by the detector, the first call returns the
\* batch without the later repeats of a (source_id, event_id), which is the full
\* batch when the keys of the batch are pairwise distinct, and the second call
\* returns an empty list.
C1_FirstOccurrencesThenEmpty ==
    (demoPc = "second" /\ BatchUnseen)
        => /\ first_new = FirstOccurrences(demoBase)
           /\ DistinctKeys(demoBase) => first_new = demoBase
           /\ second_new = <<>>

C1_Witness ==
    /\ demoPc = "second"
    /\ BatchUnseen
    /\ seen_before # EmptySeen
    /\ Len(demoBase) = 2
    /\ demoBase[1].source_id # demoBase[2].source_id

\* the (source_id, event_id) pairs a detector holds
SeenKeys(seen) == UNION {{<<s, i>> : i \in seen[s]} : s \in DOMAIN seen}

BatchKeys(batch) == {Key(batch[i]) : i \in 1..Len(batch)}

\* the events of the batch whose key is not in `seen` and did not occur earlier in
\* the batch, in the order of the batch
UnseenInOrder(batch, seen) ==
    LET fresh(i) == /\ Key(batch[i]) \notin SeenKeys(seen)
                    /\ \A j \in 1..(i - 1) : Key(batch[j]) # Key(batch[i])
        idx == {i \in 1..Len(batch) : fresh(i)}
        rank(i) == Cardinality({j \in idx : j <= i})
    IN [n \in 1..Cardinality(idx) |-> batch[CHOOSE i \in idx : rank(i) = n]]

\* C16: for every detector state and every batch, filter_new returns exactly the
\* events, in input order, whose (source_id, event_id) was not in the seen-set
\* before the call and did not occur earlier in the batch; afterwards the seen-set
\* is the previous one plus every (source_id, event_id) of the batch.
C16_ExactlyUnseenInOrder ==
    demoPc \in {"first", "second"} =>
        /\ first_new = UnseenInOrder(demoBase, seen_before)
        /\ SeenKeys(demoSeen) = SeenKeys(seen_before) \cup BatchKeys(demoBase)
        /\ DOMAIN demoSeen = DOMAIN seen_before \cup {demoBase[i].source_id : i \in 1..Len(demoBase)}
        /\ demoPc = "second" => second_new = UnseenInOrder(demoBase, demoSeen)

C16_Witness ==
    /\ demoPc = "first"
    /\ Len(demoBase) = 2
    /\ Key(demoBase[1]) \in SeenKeys(seen_before)
    /\ Key(demoBase[2]) \notin SeenKeys(seen_before)
    /\ demoBase[1].source_id = demoBase[2].source_id

\* the event_id of the i-th event of the batch is held under another source_id: in
\* the seen-set before the call, or by another event of the batch
IdKnownElsewhere(i) ==
    \/ \E s \in DOMAIN seen_before :
          s # demoBase[i].source_id /\ demoBase[i].event_id \in seen_before[s]
    \/ \E j \in 1..Len(demoBase) :
          /\ demoBase[j].source_id # demoBase[i].source_id
          /\ demoBase[j].event_id = demoBase[i].event_id

\* C17: an event whose event_id is known under another source_id only (from an
\* earlier batch or from the same batch) is kept: two events with the same event_id
\* and different source_id are both kept.
C17_SourcesAreIsolated ==
    demoPc = "first" =>
        \A i \in 1..Len(demoBase) :
            (/\ IdKnownElsewhere(i)
             /\ Key(demoBase[i]) \notin SeenKeys(seen_before)
             /\ \A j \in 1..(i - 1) : Key(demoBase[j]) # Key(demoBase[i]))
                => \E n \in 1..Len(first_new) : first_new[n] = demoBase[i]

C17_Witness ==
    /\ demoPc = "first"
    /\ Len(demoBase) = 2
    /\ demoBase[1].event_id = demoBase[2].event_id
    /\ demoBase[1].source_id # demoBase[2].source_id
    /\ Key(demoBase[1]) \notin SeenKeys(seen_before)
    /\ \E s \in DOMAIN seen_before :
          s # demoBase[1].source_id /\ demoBase[1].event_id \in seen_before[s]
    /\ first_new = <<demoBase[1]>>

(***************************************************************************)
(* Properties of the pipeline (SpecPipeline).                              *)
(***************************************************************************)
\* C2 (as claimed): an update ingested on one path is dropped as a duplicate when it
\* arrives on the other: no update of a page is emitted as new by both paths.
C2_NoUpdateNewOnBothPaths == pollEmitted \cap hookEmitted = {}

\* C3 (as claimed): every event that survives filter_new on the poll path is
\* appended to the event log store.
C3_PollSurvivorsAreLogged ==
    \A i \in 1..Len(pollNew) :
        \E n \in 1..Len(logLines) : logLines[n] = _event_to_line(pollNew[i])

\* C4 (SpecWebhook): whatever the interleaving of the webhook requests of one
\* process, the log never receives two records with the same (source_id, event_id).
C4_NoDoubleAppend ==
    \A i, j \in 1..Len(appended) :
        (appended[i].source_id = appended[j].source_id
         /\ appended[i].event_id = appended[j].event_id) => i = j

C4_Witness ==
    /\ hookRaced
    /\ inflight = <<>>
    /\ hookCount >= 2
    /\ appended # <<>>
    /\ hookBody # None
    /\ hookNew = <<>>

(***************************************************************************)
(* Properties of the webhook server (SpecWebhook).                         *)
(***************************************************************************)
\* a request was handled in the step just taken
Handled == hookBody # None

\* C11 (as claimed): for every request body, provider detection followed by
\* parse_webhook returns a list of events and never raises.
C11_WebhookNeverRaises == ~hookRaised

\* the body is a JSON object with the key page and the key incident or component_update
HasAtlassianShape(body) ==
    /\ body.json = "object"
    /\ "page" \in DOMAIN body.data
    /\ {"incident", "component_update"} \cap DOMAIN body.data # {}

\* C12: detection selects the atlassian provider exactly when the body is a JSON
\* object with the key page and the key incident or component_update; every other
\* body selects no provider, and the request then yields no event, appends nothing
\* to the log and leaves the seen-set as it was.
C12_DetectionByShape ==
    Handled =>
        /\ hookProvider = (IF HasAtlassianShape(hookBody) THEN "atlassian" ELSE NoProvider)
        /\ hookProvider = NoProvider =>
              /\ ~hookRaised
              /\ hookNew = <<>>
              /\ lastOp = "none"
              /\ hookSeen = hookPrevSeen

C12_Witness ==
    /\ Handled
    /\ hookProvider = NoProvider
    /\ hookBody.json = "object"
    /\ "incident" \in DOMAIN hookBody.data
    /\ hookPrevSeen # EmptySeen
    /\ logLines # <<>>

\* the (source_id, event_id) was in the detector when the request was resumed
SeenBefore(e) == e.source_id \in DOMAIN hookPrevSeen /\ e.event_id \in hookPrevSeen[e.source_id]

\* C19 (as claimed): the event_id of a component event never equals the event_id of
\* an incident event of the same source, so a component event that the detector
\* had not seen before the request is never dropped.
C19_ComponentIdNeverAnIncidentId ==
    (Handled /\ hookProvider = "atlassian" /\ ~hookRaised) =>
        LET source_id == Get(PageOrEmpty(hookBody.data), "id", "atlassian")
            incident == WebhookIncidentEvents(hookBody.data, source_id, now)
            component == WebhookComponentEvents(hookBody.data, source_id, now)
        IN \A c \in 1..Len(component) :
              /\ \A i \in 1..Len(incident) : incident[i].event_id # component[c].event_id
              /\ ~SeenBefore(component[c]) => \E n \in 1..Len(hookNew) : hookNew[n] = component[c]

\* the hours of the created_at texts of the payload that name an instant with offset
CreatedInstants(data) ==
    LET upds == IF "incident" \in DOMAIN data
                THEN {data["incident"]["incident_updates"][j] :
                        j \in 1..Len(data["incident"]["incident_updates"])}
                ELSE {}
        comp == IF "component_update" \in DOMAIN data THEN {data["component_update"]} ELSE {}
    IN {u["created_at"][1] : u \in {v \in upds \cup comp :
                                     "created_at" \in DOMAIN v /\ v["created_at"][2] = "Z"}}

\* C20 (as claimed): every event produced by parse_webhook carries as timestamp the
\* timezone-aware instant given by the update's created_at, never the clock of the
\* ingestion.
C20_TimestampIsAwareCreatedAt ==
    (Handled /\ hookProvider = "atlassian" /\ ~hookRaised) =>
        \A n \in 1..Len(hookNew) :
            /\ hookNew[n].timestamp.tz = "utc"
            /\ hookNew[n].timestamp.wall \in CreatedInstants(hookBody.data)

\* C21 (as claimed): every (source_id, event_id) held in the webhook detector's
\* seen-set after a request has ended, normally or with a storage error, has had
\* its record written to the log; so a payload redelivered after a failed
\* append_events is not dropped as a duplicate.
C21_SeenImpliesWritten ==
    \A key \in SeenKeys(hookSeen) : \E n \in 1..Len(appended) : Key(appended[n]) = key

(***************************************************************************)
(* Properties of the poller (SpecPoller).                                  *)
(***************************************************************************)
RECURSIVE UpdatePairs(_, _)
\* the <<incident, update>> index pairs of a summary from incident i on, in order
UpdatePairs(incidents, i) ==
    IF i > Len(incidents) THEN <<>>
    ELSE [j \in 1..Len(incidents[i].incident_updates) |-> <<i, j>>]
            \o UpdatePairs(incidents, i + 1)

\* events is one event per pair of the summary, in the summary's order, each with
\* event_id = incident id + "_" + update id
OnePerUpdateInOrder(summary, events) ==
    LET pairs == UpdatePairs(summary.incidents, 1)
    IN /\ Len(events) = Len(pairs)
       /\ \A n \in 1..Len(pairs) :
             LET incident == summary.incidents[pairs[n][1]]
                 update == incident.incident_updates[pairs[n][2]]
             IN /\ events[n].event_id = incident.id \o "_" \o update.id
                /\ events[n].product_name = incident.name
                /\ events[n].status = update.status
                /\ events[n].message = update.body
                /\ events[n].timestamp.wall = update.created_at[1]

DistinctEventIds(events) ==
    \A a, b \in 1..Len(events) : events[a].event_id = events[b].event_id => a = b

Answered(status) ==
    pollStatus # "none" /\ pollCall.resp.kind = "http" /\ pollCall.resp.status = status

\* C14: a fetch answered with 304 returns the summary of the latest parsed fetch of
\* that url and leaves the cache as it was; a fetch that fails leaves the cache as
\* it was; the cache changes only by a 2xx answer that was parsed, and then only in
\* the entry of the url fetched, which becomes the summary returned.
C14_ConditionalFetch ==
    pollStatus # "none" =>
        /\ (Answered(304) /\ pollSummary # None) =>
              /\ pollCall.url \in DOMAIN pollGood
              /\ pollSummary = pollGood[pollCall.url][1]
              /\ pollCache = pollPrevCache
        /\ pollSummary = None => pollCache = pollPrevCache
        /\ pollCache # pollPrevCache =>
              /\ Answered(200)
              /\ pollSummary # None
              /\ ~SummaryParseRaises(pollCall.resp.body)
              /\ DOMAIN pollCache = DOMAIN pollPrevCache \cup {pollCall.url}
              /\ pollCache[pollCall.url] = <<pollSummary, pollCall.resp.last_modified>>
              /\ \A u \in DOMAIN pollPrevCache \ {pollCall.url} : pollCache[u] = pollPrevCache[u]

C14_Witness ==
    /\ Answered(304)
    /\ pollStatus = "ok"
    /\ pollSummary.incidents # <<>>
    /\ pollCount >= 2

(***************************************************************************)
(* Properties of the rewrite (SpecRewrite).                                *)
(***************************************************************************)
\* C15 (as claimed): once a trim has begun, whether it returned or ended early, the
\* store holds the complete contents from before the trim or exactly the kept
\* records, and a read returns what it would return on one of the two: an empty or
\* partly written store is never seen.
C15_RewriteAllOrNothing ==
    trimPc \in {"done", "stopped"} =>
        /\ logLines = trimFrom \/ logLines = trimKept
        /\ lastOp = "read" =>
              \/ result = read_last_events(TRUE, trimFrom, lastLimit)
              \/ result = read_last_events(TRUE, trimKept, lastLimit)

====
